---- MODULE Spec2Model ----
(***************************************************************************)
(* img2block: conversion of an image into a grid of unicode block glyphs   *)
(* by quadrant best-fit matching (src/img2block.py).                       *)
(*                                                                         *)
(* Numbers.  Every float of the program that the model carries is a        *)
(* fixed-point integer with unit One (One = 1.0, so 2 is 0.25 and 4 is     *)
(* 0.5).  Every value the model feeds to the program is a multiple of      *)
(* 1/8 and every intermediate result is one too, so the float32 and        *)
(* float64 arithmetic of the program is exact on them.  Two floats are not *)
(* of that form: NaN (the mean of an empty slice) and inf (the initial     *)
(* min_dist); both are kept as values of their own with the comparison     *)
(* rules of IEEE floats (FLess).  The aspect ratio width/height and the    *)
(* product lines * aspect * 2 are not multiples of 1/8 either: they are    *)
(* computed bit by bit as IEEE 754 doubles (DoubleDiv, DoubleMulInt).      *)
(*                                                                         *)
(* Glyphs are named by their code points: "U+0020" is the space,           *)
(* "U+2588" the full block.                                                *)
(***************************************************************************)
EXTENDS Integers, Sequences, FiniteSets

VARIABLES
    PATTERNS,       \* module global: the palette every match iterates over
    pc,             \* position of the call in progress
    error,          \* "" or the exception that ended the call
    img,            \* the opened image: [width, height, gray, alpha], one tone
    lines,          \* image_to_blocks argument
    contrast,       \* image_to_blocks argument (fixed-point)
    brightness,     \* image_to_blocks argument (fixed-point)
    cols,           \* image_to_blocks local
    target_w,       \* image_to_blocks local
    target_h,       \* image_to_blocks local
    gray_arr,       \* image_to_blocks local: rows of fixed-point values
    alpha_arr,      \* image_to_blocks local
    brightness_arr, \* image_to_blocks local; sample_cell's img_array
    cells,          \* history: the boundaries sample_cell computed, per cell
    quad,           \* last value returned by sample_cell
    char,           \* last value returned by best_fit_quadrant
    output,         \* value returned by image_to_blocks: a string, as glyphs
    op              \* the function the call in progress entered

vars == <<PATTERNS, pc, error, img, lines, contrast, brightness, cols,
          target_w, target_h, gray_arr, alpha_arr, brightness_arr, cells,
          quad, char, output, op>>

---------------------------------------------------------------------------
(* Bounds of the model. *)

MaxW == 2
MaxH == 3
MaxLines == 2
MaxField == 2

---------------------------------------------------------------------------
(* Floats. *)

One == 8
Half == One \div 2
NaN == -1
Inf == 1000000

\* a <= b in the place of a < b
FLessOrEqual(a, b) ==
    /\ a # NaN
    /\ b # NaN
    /\ (b = Inf \/ (a # Inf /\ a <= b))

\* a < b on floats: false whenever a NaN is involved; everything finite < inf
FLess(a, b) ==
    /\ a # NaN
    /\ b # NaN
    /\ a # Inf
    /\ (b = Inf \/ a < b)

\* np.clip(v, lo, hi)
Clip(v, lo, hi) == IF v < lo THEN lo ELSE IF v > hi THEN hi ELSE v

\* int(f) of a fixed-point float: truncation toward zero
IntOf(f) == IF f >= 0 THEN f \div One ELSE -((-f) \div One)

\* a * b and a / b on fixed-point floats
FMul(a, b) == (a * b) \div One
FDiv(a, b) == (a * One) \div b

---------------------------------------------------------------------------
(* The palette. *)

Q(tl, tr, bl, br) == <<<<tl * One, tr * One>>, <<bl * One, br * One>>>>
Uniform(v) == <<<<v, v>>, <<v, v>>>>

QUADRANT_PATTERNS == <<
    [char |-> "U+0020", pattern |-> Q(0, 0, 0, 0)],
    [char |-> "U+2597", pattern |-> Q(0, 0, 0, 1)],
    [char |-> "U+2596", pattern |-> Q(0, 0, 1, 0)],
    [char |-> "U+2584", pattern |-> Q(0, 0, 1, 1)],
    [char |-> "U+259D", pattern |-> Q(0, 1, 0, 0)],
    [char |-> "U+2590", pattern |-> Q(0, 1, 0, 1)],
    [char |-> "U+259E", pattern |-> Q(0, 1, 1, 0)],
    [char |-> "U+259F", pattern |-> Q(0, 1, 1, 1)],
    [char |-> "U+2598", pattern |-> Q(1, 0, 0, 0)],
    [char |-> "U+259A", pattern |-> Q(1, 0, 0, 1)],
    [char |-> "U+258C", pattern |-> Q(1, 0, 1, 0)],
    [char |-> "U+2599", pattern |-> Q(1, 0, 1, 1)],
    [char |-> "U+2580", pattern |-> Q(1, 1, 0, 0)],
    [char |-> "U+259C", pattern |-> Q(1, 1, 0, 1)],
    [char |-> "U+259B", pattern |-> Q(1, 1, 1, 0)],
    [char |-> "U+2588", pattern |-> Q(1, 1, 1, 1)] >>

SHADE_PATTERNS == <<
    [char |-> "U+2591", pattern |-> Uniform(One \div 4)],
    [char |-> "U+2592", pattern |-> Uniform(One \div 2)],
    [char |-> "U+2593", pattern |-> Uniform((3 * One) \div 4)] >>

\* the two lists joined the other way round
ShadesFirst == SHADE_PATTERNS \o QUADRANT_PATTERNS

ALL_PATTERNS == QUADRANT_PATTERNS \o SHADE_PATTERNS

---------------------------------------------------------------------------
(* boost_contrast, elementwise. *)

\* the contrast line without its + 0.5
boost_contrast_uncentred(v, strength) == Clip(FMul(v - Half, strength), 0, One)

boost_contrast(v, strength) == Clip(FMul(v - Half, strength) + Half, 0, One)

---------------------------------------------------------------------------
(* best_fit_quadrant. *)

QuadPos == {<<1, 1>>, <<1, 2>>, <<2, 1>>, <<2, 2>>}

\* np.sum((quad - pattern) ** 2): NaN as soon as one quadrant is NaN.
\* The unit of the result is 1/(One*One).
Dist(q, pattern) ==
    IF \E p \in QuadPos : q[p[1]][p[2]] = NaN
    THEN NaN
    ELSE LET d(i, j) == (q[i][j] - pattern[i][j]) * (q[i][j] - pattern[i][j])
         IN  d(1, 1) + d(1, 2) + d(2, 1) + d(2, 2)

RECURSIVE BestFitLoop(_, _, _, _, _)
BestFitLoop(q, pats, i, min_dist, best_char) ==
    IF i > Len(pats)
    THEN best_char
    ELSE LET dist == Dist(q, pats[i].pattern)
         IN  IF FLess(dist, min_dist)
             THEN BestFitLoop(q, pats, i + 1, dist, pats[i].char)
             ELSE BestFitLoop(q, pats, i + 1, min_dist, best_char)

best_fit_quadrant(q) == BestFitLoop(q, PATTERNS, 1, Inf, "U+0020")

---------------------------------------------------------------------------
(* sample_cell. *)

\* x_start = int(x * cell_w), x_mid = int((x + 0.5) * cell_w),
\* x_end = int((x + 1) * cell_w); the same on the y axis
CellStart(i, cell) == IntOf(i * cell)
\* int(x + 0.5 * cell_w): the parentheses of the midpoint lost
CellMidUnparenthesised(i, cell) == IntOf(i * One + FMul(Half, cell))
CellMid(i, cell) == IntOf(FMul(i * One + Half, cell))
CellEnd(i, cell) == IntOf((i + 1) * cell)

Height(arr) == Len(arr)
Width(arr) == IF Len(arr) = 0 THEN 0 ELSE Len(arr[1])

Min2(a, b) == IF a < b THEN a ELSE b

\* the positions (row, column), counted from 0, of arr[r0:r1, c0:c1]:
\* a slice is cut to the array and is empty when it starts at its end
SlicePos(arr, r0, r1, c0, c1) ==
    {<<r, c>> : r \in r0 .. (Min2(r1, Height(arr)) - 1),
                c \in c0 .. (Min2(c1, Width(arr)) - 1)}

RECURSIVE SumAt(_, _)
SumAt(arr, S) ==
    IF S = {}
    THEN 0
    ELSE LET p == CHOOSE e \in S : TRUE
         IN  arr[p[1] + 1][p[2] + 1] + SumAt(arr, S \ {p})

\* arr[r0:r1, c0:c1].mean(): NaN for an empty slice
Mean(arr, r0, r1, c0, c1) ==
    LET S == SlicePos(arr, r0, r1, c0, c1)
    IN  IF S = {} THEN NaN ELSE SumAt(arr, S) \div Cardinality(S)

sample_cell(img_array, x, y, cell_w, cell_h) ==
    LET x_start == CellStart(x, cell_w)
        x_mid == CellMid(x, cell_w)
        x_end == CellEnd(x, cell_w)
        y_start == CellStart(y, cell_h)
        y_mid == CellMid(y, cell_h)
        y_end == CellEnd(y, cell_h)
        tl == Mean(img_array, y_start, y_mid, x_start, x_mid)
        tr == Mean(img_array, y_start, y_mid, x_mid, x_end)
        bl == Mean(img_array, y_mid, y_end, x_start, x_mid)
        br == Mean(img_array, y_mid, y_end, x_mid, x_end)
    IN  <<<<tl, tr>>, <<bl, br>>>>

\* history of one sample_cell call: its arguments and its boundaries
CellRec(x, y, cell_w, cell_h) ==
    [x |-> x, y |-> y, cell_w |-> cell_w, cell_h |-> cell_h,
     x_start |-> CellStart(x, cell_w), x_mid |-> CellMid(x, cell_w),
     x_end |-> CellEnd(x, cell_w),
     y_start |-> CellStart(y, cell_h), y_mid |-> CellMid(y, cell_h),
     y_end |-> CellEnd(y, cell_h)]

---------------------------------------------------------------------------
(* image_to_blocks. *)

\* A Python float is an IEEE 754 double: a significand of 53 bits.  A
\* positive double is the record [m |-> its 53 bits, the first one set,
\* e |-> the power of two of the last bit]; m is empty for 0.0.  The
\* arithmetic goes nine bits at a time, which keeps every intermediate
\* number far below 2^31.
Precision == 53

Zero == [m |-> <<>>, e |-> 0]

RECURSIVE Pow2(_)
Pow2(n) ==
    IF n = 0 THEN 1
    ELSE IF n % 2 = 1 THEN 2 * Pow2(n - 1)
    ELSE LET half == Pow2(n \div 2) IN half * half

\* the e with 2^e <= w / h < 2^(e + 1), for w > 0 and h > 0
Log2Floor(w, h) ==
    IF w >= h
    THEN CHOOSE e \in 0 .. 29 : Pow2(e) <= w \div h /\ w \div h < Pow2(e + 1)
    ELSE -(CHOOSE k \in 1 .. 30 : w * Pow2(k - 1) < h /\ h <= w * Pow2(k))

\* the n bits of v < 2^n, and the number of a sequence of bits
Bits(v, n) == [i \in 1 .. n |-> (v \div Pow2(n - i)) % 2]

RECURSIVE BitsValue(_)
BitsValue(bits) ==
    IF Len(bits) = 0 THEN 0
    ELSE IF Len(bits) = 1 THEN bits[1]
    ELSE LET h == Len(bits) \div 2
         IN  BitsValue(SubSeq(bits, 1, h)) * Pow2(Len(bits) - h)
                 + BitsValue(SubSeq(bits, h + 1, Len(bits)))

\* the bits of c without leading zeros
BitsOf(c) ==
    Bits(c, CHOOSE n \in 0 .. 30 : c < Pow2(n) /\ (n = 0 \/ Pow2(n - 1) <= c))

\* the first n bits of r / d after the point, for r < d, and what is left
\* of r
RECURSIVE LongDiv(_, _, _)
LongDiv(r, d, n) ==
    IF n = 0
    THEN [bits |-> <<>>, rem |-> r]
    ELSE LET k == IF n < 9 THEN n ELSE 9
             rest == LongDiv((r * Pow2(k)) % d, d, n - k)
         IN  [bits |-> Bits((r * Pow2(k)) \div d, k) \o rest.bits,
              rem |-> rest.rem]

\* the bits of l times the number of bits, plus carry
RECURSIVE MulBits(_, _, _)
MulBits(bits, l, carry) ==
    IF Len(bits) = 0
    THEN BitsOf(carry)
    ELSE LET k == IF Len(bits) < 9 THEN Len(bits) ELSE 9
             t == BitsValue(SubSeq(bits, Len(bits) - k + 1, Len(bits))) * l
                      + carry
         IN  MulBits(SubSeq(bits, 1, Len(bits) - k), l, t \div Pow2(k))
                 \o Bits(t % Pow2(k), k)

Front(bits) == SubSeq(bits, 1, Len(bits) - 1)

\* the bits of the number plus one
Inc(bits) ==
    IF \A i \in DOMAIN bits : bits[i] = 1
    THEN <<1>> \o [i \in DOMAIN bits |-> 0]
    ELSE LET j == CHOOSE j \in DOMAIN bits :
                      /\ bits[j] = 0
                      /\ \A i \in (j + 1) .. Len(bits) : bits[i] = 1
         IN  [i \in DOMAIN bits |->
                 IF i < j THEN bits[i] ELSE IF i = j THEN 1 ELSE 0]

AnySet(bits) == \E i \in DOMAIN bits : bits[i] = 1

\* the double nearest to the number of the given bits (53 or more, the
\* first one set, the last one worth 2^e), ties to the even significand;
\* sticky tells that the number has a nonzero part below its last bit
RoundToDouble(bits, e, sticky) ==
    LET keep == SubSeq(bits, 1, Precision)
        rest == SubSeq(bits, Precision + 1, Len(bits))
        up == /\ Len(rest) > 0
              /\ rest[1] = 1
              /\ (sticky \/ AnySet(Tail(rest)) \/ keep[Precision] = 1)
        k == IF up THEN Inc(keep) ELSE keep
    IN  IF Len(k) > Precision
        THEN [m |-> Front(k), e |-> e + Len(rest) + 1]
        ELSE [m |-> k, e |-> e + Len(rest)]

\* aspect = img.width / img.height: the quotient of two ints, as a double
DoubleDiv(w, h) ==
    IF w = 0 THEN Zero
    ELSE LET e0 == Log2Floor(w, h)
             r0 == IF e0 >= 0 THEN w ELSE w * Pow2(-e0)
             d == IF e0 >= 0 THEN h * Pow2(e0) ELSE h
             q == LongDiv(r0 - d, d, Precision)
         IN  RoundToDouble(<<1>> \o q.bits, e0 - Precision, q.rem # 0)

\* l * f for an int l > 0 and a double f > 0
DoubleMulInt(f, l) == RoundToDouble(MulBits(f.m, l, 0), f.e, FALSE)

\* f * 2
Twice(f) == [m |-> f.m, e |-> f.e + 1]

\* int(f) of a double f > 0: the bits worth 1 and more
DoubleInt(f) ==
    IF f.e >= 0 THEN BitsValue(f.m) * Pow2(f.e)
    ELSE IF Precision + f.e <= 0 THEN 0
    ELSE BitsValue(SubSeq(f.m, 1, Precision + f.e))

\* lines * aspect * 2, as Python evaluates it: (lines * aspect) * 2, for
\* lines # 0 and aspect # 0.0; the magnitude, the sign being that of lines
Product(l, aspect) == Twice(DoubleMulInt(aspect, IF l > 0 THEN l ELSE -l))

\* cols = int(lines * aspect * 2): the double product, truncated toward zero
Cols(l, aspect) ==
    IF l = 0 \/ aspect = Zero THEN 0
    ELSE IF l > 0 THEN DoubleInt(Product(l, aspect))
    ELSE -DoubleInt(Product(l, aspect))

\* 2x supersampling for quadrant detection
Supersample(n) == n * 2

\* value / 255.0 of a pixel level
Normalize(p) == (p * One) \div 255

Fill(h, w, v) == [r \in 1 .. h |-> [c \in 1 .. w |-> v]]

\* the LA image Image.resize returns for a source of one tone: the same
\* tone at every pixel.  Pillow resamples LA with premultiplied alpha, which
\* leaves gray 0 where alpha is 0; resampling the channels apart keeps gray.
ResizedGray(im) == IF im.alpha = 0 THEN {im.gray, 0} ELSE {im.gray}

\* np.clip(gray_arr + brightness, 0.0, 1.0) if brightness != 0.0
ShiftBrightness(arr, b) ==
    IF b # 0
    THEN [r \in DOMAIN arr |-> [c \in DOMAIN arr[r] |-> Clip(arr[r][c] + b, 0, One)]]
    ELSE arr

\* gray_arr * alpha_arr
Composite(g, a) ==
    [r \in DOMAIN g |-> [c \in DOMAIN g[r] |-> FMul(g[r][c], a[r][c])]]

BoostArr(arr, strength) ==
    [r \in DOMAIN arr |-> [c \in DOMAIN arr[r] |-> boost_contrast(arr[r][c], strength)]]

\* the brightness shift applied AFTER alpha, on the composited field
ToneFieldShiftAfterAlpha(g, a, b, strength) ==
    BoostArr(ShiftBrightness(Composite(g, a), b), strength)

\* brightness shift BEFORE alpha, then the contrast boost (lines 113-121)
ToneField(g, a, b, strength) ==
    BoostArr(Composite(ShiftBrightness(g, b), a), strength)

\* '\n'.join(result)
RECURSIVE JoinRows(_)
JoinRows(rows) ==
    IF Len(rows) = 0 THEN <<>>
    ELSE IF Len(rows) = 1 THEN rows[1]
    ELSE rows[1] \o <<"\n">> \o JoinRows(Tail(rows))

\* the rows of glyphs of the character grid (lines 127-134)
GridRows(arr, l, c, cell_w, cell_h) ==
    [y \in 1 .. l |->
        [x \in 1 .. c |->
            best_fit_quadrant(sample_cell(arr, x - 1, y - 1, cell_w, cell_h))]]

NoArr == <<>>

Locals(c, tw, th, g, a, b, cs, q, ch, out) ==
    /\ cols' = c
    /\ target_w' = tw
    /\ target_h' = th
    /\ gray_arr' = g
    /\ alpha_arr' = a
    /\ brightness_arr' = b
    /\ cells' = cs
    /\ quad' = q
    /\ char' = ch
    /\ output' = out

FreshLocals == Locals(0, 0, 0, NoArr, NoArr, NoArr, {}, NoArr, "", <<>>)

Raise(e) ==
    /\ error' = e
    /\ pc' = "done"

\* image_to_blocks entered: Image.open and the conversion to LA
Call(w, h, g, a, l, c, b) ==
    /\ pc = "idle"
    /\ op' = "image_to_blocks"
    /\ img' = [width |-> w, height |-> h, gray |-> g, alpha |-> a]
    /\ lines' = l
    /\ contrast' = c
    /\ brightness' = b
    /\ error' = ""
    /\ pc' = "aspect"
    /\ FreshLocals
    /\ UNCHANGED PATTERNS

\* aspect, cols, target_w, target_h
Dims ==
    /\ pc = "aspect"
    /\ IF img.height = 0
       THEN /\ Raise("ZeroDivisionError")
            /\ UNCHANGED <<cols, target_w, target_h>>
       ELSE LET aspect == DoubleDiv(img.width, img.height)
                c == Cols(lines, aspect)
            IN  /\ cols' = c
                /\ target_w' = Supersample(c)
                /\ target_h' = Supersample(lines)
                /\ pc' = "resize"
                /\ UNCHANGED error
    /\ UNCHANGED <<PATTERNS, img, lines, contrast, brightness, gray_arr,
                   alpha_arr, brightness_arr, cells, quad, char, output, op>>

\* img.resize and the extraction of the two channels
Resize ==
    /\ pc = "resize"
    /\ IF <<img.width, img.height>> # <<target_w, target_h>>
          /\ (target_w < 1 \/ target_h < 1)
       THEN /\ Raise("ValueError")
            /\ UNCHANGED <<gray_arr, alpha_arr>>
       ELSE \E gv \in ResizedGray(img) :
                /\ gray_arr' = Fill(target_h, target_w, Normalize(gv))
                /\ alpha_arr' = Fill(target_h, target_w, Normalize(img.alpha))
                /\ pc' = "tone"
                /\ UNCHANGED error
    /\ UNCHANGED <<PATTERNS, img, lines, contrast, brightness, cols,
                   target_w, target_h, brightness_arr, cells, quad, char,
                   output, op>>

\* brightness shift (gray_arr is rebound to the shifted channel),
\* compositing with alpha, contrast boost
Tone ==
    /\ pc = "tone"
    /\ gray_arr' = ShiftBrightness(gray_arr, brightness)
    /\ brightness_arr' = ToneField(gray_arr, alpha_arr, brightness, contrast)
    /\ pc' = "map"
    /\ UNCHANGED <<PATTERNS, error, img, lines, contrast, brightness, cols,
                   target_w, target_h, alpha_arr, cells, quad, char, output,
                   op>>

\* cell sizes, the loop over the cells and the join of the rows
Map ==
    /\ pc = "map"
    /\ IF lines = 0 \/ cols = 0
       THEN /\ Raise("ZeroDivisionError")
            /\ UNCHANGED <<cells, quad, char, output>>
       ELSE LET cell_h == FDiv(target_h * One, lines * One)
                cell_w == FDiv(target_w * One, cols * One)
                result == GridRows(brightness_arr, lines, cols, cell_w, cell_h)
                visited == lines > 0 /\ cols > 0
            IN  /\ cells' = {CellRec(x, y, cell_w, cell_h) :
                                x \in 0 .. (cols - 1), y \in 0 .. (lines - 1)}
                /\ quad' = IF visited
                           THEN sample_cell(brightness_arr, cols - 1, lines - 1,
                                            cell_w, cell_h)
                           ELSE quad
                /\ char' = IF visited THEN result[lines][cols] ELSE char
                /\ output' = JoinRows(result)
                /\ pc' = "done"
                /\ UNCHANGED error
    /\ UNCHANGED <<PATTERNS, img, lines, contrast, brightness, cols,
                   target_w, target_h, gray_arr, alpha_arr, brightness_arr,
                   op>>

\* sample_cell called on its own
SampleCall(field, x, y, cell_w, cell_h) ==
    /\ pc = "idle"
    /\ op' = "sample_cell"
    /\ error' = ""
    /\ Locals(0, 0, 0, NoArr, NoArr, field, {CellRec(x, y, cell_w, cell_h)},
              sample_cell(field, x, y, cell_w, cell_h), "", <<>>)
    /\ pc' = "sampled"
    /\ UNCHANGED <<PATTERNS, img, lines, contrast, brightness>>

\* the sample handed on to best_fit_quadrant
Match ==
    /\ pc = "sampled"
    /\ char' = best_fit_quadrant(quad)
    /\ pc' = "done"
    /\ UNCHANGED <<PATTERNS, error, img, lines, contrast, brightness, cols,
                   target_w, target_h, gray_arr, alpha_arr, brightness_arr,
                   cells, quad, output, op>>

\* best_fit_quadrant called on its own
MatchCall(q) ==
    /\ pc = "idle"
    /\ op' = "best_fit_quadrant"
    /\ error' = ""
    /\ Locals(0, 0, 0, NoArr, NoArr, NoArr, {}, q, best_fit_quadrant(q), <<>>)
    /\ pc' = "done"
    /\ UNCHANGED <<PATTERNS, img, lines, contrast, brightness>>

NoImg == [width |-> 0, height |-> 0, gray |-> 0, alpha |-> 0]

Forget ==
    /\ op' = ""
    /\ error' = ""
    /\ img' = NoImg
    /\ lines' = 0
    /\ contrast' = 0
    /\ brightness' = 0
    /\ FreshLocals
    /\ pc' = "idle"

\* the call is over and its frame is gone
Again ==
    /\ pc = "done"
    /\ Forget
    /\ UNCHANGED PATTERNS

Init ==
    /\ PATTERNS = ALL_PATTERNS
    /\ pc = "idle"
    /\ op = ""
    /\ error = ""
    /\ img = NoImg
    /\ lines = 0
    /\ contrast = 0
    /\ brightness = 0
    /\ cols = 0
    /\ target_w = 0
    /\ target_h = 0
    /\ gray_arr = NoArr
    /\ alpha_arr = NoArr
    /\ brightness_arr = NoArr
    /\ cells = {}
    /\ quad = NoArr
    /\ char = ""
    /\ output = <<>>

---------------------------------------------------------------------------
(* Inputs. *)

PixelLevels == {0, 255}
Contrasts == {0, Half, One, 2 * One}
Shifts == {-Half, -(One \div 4), 0, One \div 4, Half}

CellSizes == {Half, One, One + Half, 2 * One, 3 * One, 4 * One}
Fields ==
    UNION {[1 .. h -> [1 .. w -> {0, One}]] : h \in 1 .. MaxField, w \in 1 .. MaxField}

Samples == [1 .. 2 -> [1 .. 2 -> 0 .. One]]

---------------------------------------------------------------------------
(* Specifications. *)

\* image_to_blocks on every image and every parameter of the bounds
Render ==
    \E w \in 0 .. MaxW, h \in 0 .. MaxH, g \in PixelLevels, a \in PixelLevels,
       l \in -1 .. MaxLines, c \in Contrasts, b \in Shifts :
        Call(w, h, g, a, l, c, b)

Next ==
    \/ Render
    \/ Dims
    \/ Resize
    \/ Tone
    \/ Map
    \/ Again

Spec == Init /\ [][Next]_vars

\* best_fit_quadrant on every sample of the grid of eighths
FitAny == \E q \in Samples : MatchCall(q)

NextFit ==
    \/ FitAny
    \/ Again

SpecFit == Init /\ [][NextFit]_vars

\* sample_cell on small fields with cell sizes from half a pixel to four
SampleAny ==
    \E field \in Fields, x \in 0 .. 1, y \in 0 .. 1,
       cell_w \in CellSizes, cell_h \in CellSizes :
        SampleCall(field, x, y, cell_w, cell_h)

NextSample ==
    \/ SampleAny
    \/ Match
    \/ Again

SpecSample == Init /\ [][NextSample]_vars

---------------------------------------------------------------------------
(* Properties. *)

Returned == pc = "done" /\ op = "image_to_blocks" /\ error = ""

\* str.split('\n') of the returned string
RECURSIVE SplitFrom(_, _, _)
SplitFrom(s, i, cur) ==
    IF i > Len(s) THEN <<cur>>
    ELSE IF s[i] = "\n" THEN <<cur>> \o SplitFrom(s, i + 1, <<>>)
    ELSE SplitFrom(s, i + 1, Append(cur, s[i]))

TextRows == SplitFrom(output, 1, <<>>)

ValidInput == img.width > 0 /\ img.height > 0 /\ lines > 0

\* the integers nearest to a double f > 0: one, or two when f lies halfway
Nearest(f) ==
    LET n == Precision + f.e
        i == DoubleInt(f)
    IN  IF f.e >= 0 THEN {i}
        ELSE IF n < 0 THEN {0}
        ELSE IF f.m[n + 1] = 0 THEN {i}
        ELSE IF AnySet(SubSeq(f.m, n + 2, Precision)) THEN {i + 1}
        ELSE {i, i + 1}

\* C1: a call on an image of width W > 0 and height H > 0 with
\* outputLines L > 0 returns exactly L text rows, every one of
\* round(L * (W/H) * 2) glyphs (either neighbour when the product lies
\* halfway between two integers).
C1_RowsOfRoundedLength ==
    (pc = "done" /\ op = "image_to_blocks" /\ ValidInput) =>
        /\ error = ""
        /\ Len(TextRows) = lines
        /\ \A i \in 1 .. Len(TextRows) :
              Len(TextRows[i])
                  \in Nearest(Product(lines, DoubleDiv(img.width, img.height)))

\* C2: a call with outputLines <= 0 or an image of zero width or height
\* ends in InvalidParameterError, before any pixel work.
C2_InvalidParameterError ==
    (pc = "done" /\ op = "image_to_blocks"
        /\ (lines <= 0 \/ img.width = 0 \/ img.height = 0)) =>
        /\ error = "InvalidParameterError"
        /\ gray_arr = NoArr
        /\ brightness_arr = NoArr
        /\ cells = {}

\* C3: a call with positive width, height and outputLines never fails.
C3_ValidInputNeverFails ==
    (pc = "done" /\ op = "image_to_blocks" /\ ValidInput) => error = ""

\* squared Euclidean distance of a sample to a pattern, quadrant by quadrant
SqDist(q, pattern) ==
    LET sq(n) == n * n
    IN  sq(q[1][1] - pattern[1][1]) + sq(q[1][2] - pattern[1][2])
        + sq(q[2][1] - pattern[2][1]) + sq(q[2][2] - pattern[2][2])

\* C4: bestFit returns the glyph of the first palette entry, in palette
\* order, whose squared distance to the sample is minimal over the palette.
C4_FirstMinimalEntry ==
    (pc = "done" /\ op = "best_fit_quadrant") =>
        \E i \in 1 .. Len(PATTERNS) :
            /\ char = PATTERNS[i].char
            /\ \A j \in 1 .. Len(PATTERNS) :
                  SqDist(quad, PATTERNS[i].pattern) <= SqDist(quad, PATTERNS[j].pattern)
            /\ \A j \in 1 .. (i - 1) :
                  SqDist(quad, PATTERNS[i].pattern) < SqDist(quad, PATTERNS[j].pattern)

\* the sample (0.5, 0; 0, 0) is as far from the space, from the upper left
\* quadrant and from the light shade: the space, first in the palette, wins
C4_Witness ==
    /\ pc = "done" /\ op = "best_fit_quadrant"
    /\ quad = <<<<Half, 0>>, <<0, 0>>>>
    /\ SqDist(quad, PATTERNS[1].pattern) = SqDist(quad, PATTERNS[9].pattern)
    /\ SqDist(quad, PATTERNS[1].pattern) = SqDist(quad, PATTERNS[17].pattern)
    /\ char = "U+0020"

AllGlyphs(g) == \A i \in 1 .. Len(TextRows) :
                    \A j \in 1 .. Len(TextRows[i]) : TextRows[i][j] = g

\* C5: an image with alpha 0 everywhere renders, at contrast 1.0 and any
\* brightness delta, as a grid of spaces only.
C5_TransparentIsSpaces ==
    (Returned /\ img.alpha = 0 /\ contrast = One) => AllGlyphs("U+0020")

\* a transparent white image shifted brighter, rendered as spaces
C5_Witness ==
    /\ Returned
    /\ img.alpha = 0 /\ img.gray = 255 /\ contrast = One /\ brightness > 0
    /\ Len(output) > 1
    /\ AllGlyphs("U+0020")

\* C6: a solid opaque white image renders, at brightness delta 0 and any
\* contrast strength >= 1.0, as a grid of full blocks only.
C6_WhiteIsFullBlocks ==
    (Returned /\ img.gray = 255 /\ img.alpha = 255 /\ brightness = 0
        /\ contrast >= One) => AllGlyphs("U+2588")

\* a white image at the default contrast, two rows of full blocks
C6_Witness ==
    /\ Returned
    /\ img.gray = 255 /\ img.alpha = 255 /\ brightness = 0 /\ contrast = One
    /\ lines = 2 /\ cols > 1
    /\ AllGlyphs("U+2588")

\* the quadrants each block element draws, after its name in the Unicode
\* chart (Block Elements, U+2580..U+259F): <<1, 1>> is the upper left,
\* <<1, 2>> the upper right, <<2, 1>> the lower left, <<2, 2>> the lower right
GlyphDraws(g) ==
    CASE g = "U+0020" -> {}
      [] g = "U+2597" -> {<<2, 2>>}
      [] g = "U+2596" -> {<<2, 1>>}
      [] g = "U+2584" -> {<<2, 1>>, <<2, 2>>}
      [] g = "U+259D" -> {<<1, 2>>}
      [] g = "U+2590" -> {<<1, 2>>, <<2, 2>>}
      [] g = "U+259E" -> {<<1, 2>>, <<2, 1>>}
      [] g = "U+259F" -> {<<1, 2>>, <<2, 1>>, <<2, 2>>}
      [] g = "U+2598" -> {<<1, 1>>}
      [] g = "U+259A" -> {<<1, 1>>, <<2, 2>>}
      [] g = "U+258C" -> {<<1, 1>>, <<2, 1>>}
      [] g = "U+2599" -> {<<1, 1>>, <<2, 1>>, <<2, 2>>}
      [] g = "U+2580" -> {<<1, 1>>, <<1, 2>>}
      [] g = "U+259C" -> {<<1, 1>>, <<1, 2>>, <<2, 2>>}
      [] g = "U+259B" -> {<<1, 1>>, <<1, 2>>, <<2, 1>>}
      [] g = "U+2588" -> {<<1, 1>>, <<1, 2>>, <<2, 1>>, <<2, 2>>}
      [] OTHER -> {<<0, 0>>}

Lit(pattern) == {p \in QuadPos : pattern[p[1]][p[2]] = One}

\* C7: the palette of every match is 19 entries: the 16 binary patterns,
\* each combination once, then the uniform patterns 0.25, 0.5, 0.75; the
\* glyphs are pairwise distinct, the patterns are pairwise distinct, every
\* value lies in [0, 1], and a binary pattern lights the quadrants its
\* glyph draws.
C7_Palette ==
    /\ Len(PATTERNS) = 19
    /\ \A i \in 1 .. 16 : \A p \in QuadPos :
          PATTERNS[i].pattern[p[1]][p[2]] \in {0, One}
    /\ \A S \in SUBSET QuadPos :
          Cardinality({i \in 1 .. 16 : Lit(PATTERNS[i].pattern) = S}) = 1
    /\ PATTERNS[17].pattern = Uniform(One \div 4)
    /\ PATTERNS[18].pattern = Uniform(One \div 2)
    /\ PATTERNS[19].pattern = Uniform((3 * One) \div 4)
    /\ \A i, j \in 1 .. 19 :
          i # j => /\ PATTERNS[i].char # PATTERNS[j].char
                   /\ PATTERNS[i].pattern # PATTERNS[j].pattern
    /\ \A i \in 1 .. 19 : \A p \in QuadPos :
          /\ PATTERNS[i].pattern[p[1]][p[2]] >= 0
          /\ PATTERNS[i].pattern[p[1]][p[2]] <= One
    /\ \A i \in 1 .. 16 : GlyphDraws(PATTERNS[i].char) = Lit(PATTERNS[i].pattern)

\* a match made with that palette: the lower right quadrant alone
C7_Witness ==
    /\ Returned
    /\ PATTERNS[2] = [char |-> "U+2597", pattern |-> Q(0, 0, 0, 1)]
    /\ PATTERNS[19].char = "U+2593"
    /\ char = "U+2593"

\* the four quadrant rectangles of a cell: rows [r0, r1), columns [c0, c1)
QuadRect(cell, p) ==
    [r0 |-> IF p[1] = 1 THEN cell.y_start ELSE cell.y_mid,
     r1 |-> IF p[1] = 1 THEN cell.y_mid ELSE cell.y_end,
     c0 |-> IF p[2] = 1 THEN cell.x_start ELSE cell.x_mid,
     c1 |-> IF p[2] = 1 THEN cell.x_mid ELSE cell.x_end]

InRect(rect, r, c) ==
    rect.r0 <= r /\ r < rect.r1 /\ rect.c0 <= c /\ c < rect.c1

\* the pixels of the field a quadrant rectangle covers
Covered(rect, arr) ==
    {<<r, c>> \in (0 .. (Height(arr) - 1)) \X (0 .. (Width(arr) - 1)) :
        InRect(rect, r, c)}

\* C9: a quadrant whose rectangle is empty has mean 0, and no NaN is
\* returned by sampleCell.
C9_EmptyQuadrantIsZero ==
    (pc \in {"sampled", "done"} /\ op = "sample_cell") =>
        \A cell \in cells : \A p \in QuadPos :
            /\ quad[p[1]][p[2]] # NaN
            /\ Covered(QuadRect(cell, p), brightness_arr) = {} => quad[p[1]][p[2]] = 0

\* C10: in a render that returns, every cell is 2 by 2 pixels with
\* boundaries 2i, 2i + 1, 2i + 2, and every pixel of the resized field is
\* read by exactly one quadrant of exactly one cell.
C10_QuadrantsPartitionField ==
    Returned =>
        /\ lines > 0 /\ cols > 0
        /\ Height(brightness_arr) = 2 * lines
        /\ Width(brightness_arr) = 2 * cols
        /\ {<<cell.x, cell.y>> : cell \in cells}
              = (0 .. (cols - 1)) \X (0 .. (lines - 1))
        /\ Cardinality(cells) = lines * cols
        /\ \A cell \in cells :
              /\ cell.cell_w = 2 * One /\ cell.cell_h = 2 * One
              /\ cell.x_start = 2 * cell.x
              /\ cell.x_mid = 2 * cell.x + 1
              /\ cell.x_end = 2 * cell.x + 2
              /\ cell.y_start = 2 * cell.y
              /\ cell.y_mid = 2 * cell.y + 1
              /\ cell.y_end = 2 * cell.y + 2
              /\ \A p \in QuadPos :
                    Cardinality(Covered(QuadRect(cell, p), brightness_arr)) = 1
        /\ \A r \in 0 .. (2 * lines - 1) : \A c \in 0 .. (2 * cols - 1) :
              Cardinality({<<cell, p>> \in cells \X QuadPos :
                  InRect(QuadRect(cell, p), r, c)}) = 1

\* a grid of 2 rows of 4 cells over a field of 4 rows of 8 pixels
C10_Witness ==
    /\ Returned
    /\ lines = 2 /\ cols = 4
    /\ Cardinality(cells) = 8
    /\ \E cell \in cells : cell.x = 3 /\ cell.y = 1 /\ cell.x_mid = 7 /\ cell.y_end = 4

====
